---- MODULE Spec2Model ----
\* Flight-Sight server (src/server.js, the deployed revision at lines 131-293):
\* the airport autocomplete endpoint with its in-memory cache and removal
\* timers, and the flight recommendation endpoint.
EXTENDS Integers, Sequences, FiniteSets, TLC

VARIABLES now, airportCache, timers, lastPut, areq, resp, rec

vars == <<now, airportCache, timers, lastPut, areq, resp, rec>>

\* ---------------------------------------------------------------- bounds
MaxRequests == 3
MaxTicks == 2
MaxCands == 3
MaxServerRequests == 1

\* ------------------------------------------------------------- constants
CACHE_TTL_MS == 86400000

\* The clock is observed every half TTL.
TickMs == CACHE_TTL_MS \div 2
MaxTime == MaxTicks * TickMs

\* JavaScript values of request parameters: undefined, a string (a sequence
\* of characters), a number, or the array the query parser builds from a
\* repeated parameter.
Undefined == [t |-> "undefined", s |-> <<>>, n |-> 0]
JsStr(s) == [t |-> "string", s |-> s, n |-> 0]
JsNum(n) == [t |-> "number", s |-> <<>>, n |-> n]
JsArray == [t |-> "array", s |-> <<>>, n |-> 0]

ReqIds == 1..MaxRequests

\* Query-string keywords seen by the autocomplete endpoint: strings as
\* sequences of characters, or no keyword parameter at all.
Keywords ==
    { <<>>, <<"p", "a", "r">>, <<"P", "A", "R">>, <<"l", "o", "n">> }

KeywordInputs == {JsStr(k) : k \in Keywords} \cup {Undefined}

\* Payloads the reference-data lookup can return, and its error descriptions.
LocationData == {"locationsA", "locationsB"}
AmadeusErrors == {"errDetail"}

\* --------------------------------------------- recommendation inputs
\* Request body fields of POST /api/search-flights.
DaysInputs == {Undefined, JsStr(<<>>), JsStr(<<"5">>), JsNum(0)}
AirportInputs == {Undefined, JsStr(<<>>), JsStr(<<"J", "F", "K">>)}

\* A property that an element of the parsed suggestion does not have.
Absent == "<absent>"

\* Elements of a parsed suggestion: candidate objects (possibly lacking a
\* property) or null.
Candidates ==
    { [t |-> "object", city |-> "Paris, France", iataCode |-> "CDG"],
      [t |-> "object", city |-> "Tokyo, Japan", iataCode |-> "HND"] }

Malformed ==
    { [t |-> "object", city |-> "Lima, Peru", iataCode |-> Absent],
      [t |-> "object", city |-> Absent, iataCode |-> "LIM"] }

Elems == Candidates \cup Malformed

NullElem == [t |-> "null", city |-> Absent, iataCode |-> Absent]

Paris == [t |-> "object", city |-> "Paris, France", iataCode |-> "CDG"]

SeqsUpTo(S, n) == UNION {[1..m -> S] : m \in 0..n}

\* Values JSON.parse can return for a suggestion payload: an array of
\* objects, an array holding a null, or a bare object (a candidate not
\* wrapped in an array).
JsonValues ==
    {[kind |-> "array", elems |-> e] : e \in SeqsUpTo(Elems, MaxCands)}
        \cup {[kind |-> "array", elems |-> <<NullElem>>],
              [kind |-> "array", elems |-> <<Paris, NullElem, Paris>>],
              [kind |-> "object", elems |-> <<>>]}

NoValue == [kind |-> "none", elems |-> <<>>]

\* The suggestion text as a sequence of lexical pieces: the two fence
\* markers the handler strips (three backticks with and without the json
\* tag), a fence with another language tag, whitespace, prose, and a
\* complete JSON text.
Piece(tok) == [tok |-> tok, val |-> NoValue]
Json(v) == [tok |-> "json", val |-> v]

Wrappings(v) ==
    { <<Json(v)>>,
      <<Piece("ws"), Piece("fence_json"), Piece("ws"), Json(v), Piece("ws"),
        Piece("fence"), Piece("ws")>>,
      <<Piece("prose"), Piece("ws"), Json(v)>>,
      <<Piece("fence_js"), Piece("ws"), Json(v), Piece("ws"), Piece("fence")>> }

GeminiTexts == {<<>>} \cup UNION {Wrappings(v) : v \in JsonValues}

\* Offers of a flightOffersSearch response: price.total is a decimal string.
Offer(total) == [price |-> [total |-> total]]
OfferA == Offer(<<"4", "5", "0", ".", "0", "0">>)
OfferB == Offer(<<"9", "8", "0", ".", "5", "0">>)
FareData == {<<>>, <<OfferA>>, <<OfferB, OfferA>>}
FareErrors == {"err141"}

\* --------------------------------------------------------- pure functions
ToUpperChar(c) ==
    CASE c = "a" -> "A"
      [] c = "l" -> "L"
      [] c = "n" -> "N"
      [] c = "o" -> "O"
      [] c = "p" -> "P"
      [] c = "r" -> "R"
      [] OTHER -> c

\* A key that keeps the spelling of the keyword.
ToUpperCaseKeepsSpelling(s) == s

ToUpperCase(s) == [i \in DOMAIN s |-> ToUpperChar(s[i])]

\* A test that takes only a missing value for falsy.
FalsyOnlyUndefined(x) == x.t = "undefined"

\* JavaScript !x: undefined, "" and 0 are falsy.
Falsy(x) ==
    \/ x.t = "undefined"
    \/ x.t = "string" /\ x.s = <<>>
    \/ x.t = "number" /\ x.n = 0

\* geminiText.replace(/fence_json|fence/g, ''): both markers are removed wherever
\* they occur; of a fence with another tag only the backticks go, the tag
\* stays in the text.
RECURSIVE StripFences(_)
StripFences(text) ==
    IF text = <<>> THEN <<>>
    ELSE LET h == Head(text)
             rest == StripFences(Tail(text))
         IN IF h.tok \in {"fence_json", "fence"} THEN rest
            ELSE IF h.tok = "fence_js" THEN <<Piece("prose")>> \o rest
            ELSE <<h>> \o rest

\* String.prototype.trim
RECURSIVE TrimStart(_)
TrimStart(text) ==
    IF text # <<>> /\ Head(text).tok = "ws" THEN TrimStart(Tail(text)) ELSE text

RECURSIVE TrimEnd(_)
TrimEnd(text) ==
    IF text # <<>> /\ text[Len(text)].tok = "ws"
    THEN TrimEnd(SubSeq(text, 1, Len(text) - 1))
    ELSE text

Trim(text) == TrimEnd(TrimStart(text))

\* JSON.parse: one JSON text, whitespace allowed around it; anything else
\* (nothing, prose, two texts) is a SyntaxError, here NoValue.
JsonParse(text) ==
    LET solid == SelectSeq(text, LAMBDA p : p.tok # "ws")
    IN IF Len(solid) = 1 /\ solid[1].tok = "json" THEN solid[1].val ELSE NoValue

ParseDestinations(geminiText) == JsonParse(Trim(StripFences(geminiText)))

\* for...of accepts arrays and strings; anything else throws a TypeError.
Iterable(v) == v.kind \in {"array", "string"}

\* parseFloat on a decimal string, the result in hundredths; NaN when the
\* string does not start with a digit.
NaN == -1

DigitVal(c) ==
    CASE c = "0" -> 0 [] c = "1" -> 1 [] c = "2" -> 2 [] c = "3" -> 3
      [] c = "4" -> 4 [] c = "5" -> 5 [] c = "6" -> 6 [] c = "7" -> 7
      [] c = "8" -> 8 [] c = "9" -> 9 [] OTHER -> -1

RECURSIVE DigitsPrefix(_)
DigitsPrefix(str) ==
    IF str # <<>> /\ DigitVal(Head(str)) >= 0
    THEN <<Head(str)>> \o DigitsPrefix(Tail(str))
    ELSE <<>>

RECURSIVE DigitsValue(_)
DigitsValue(ds) ==
    IF ds = <<>> THEN 0
    ELSE DigitsValue(SubSeq(ds, 1, Len(ds) - 1)) * 10 + DigitVal(ds[Len(ds)])

ParseFloat(str) ==
    LET int == DigitsPrefix(str)
        after == SubSeq(str, Len(int) + 1, Len(str))
        frac == IF after # <<>> /\ Head(after) = "."
                THEN DigitsPrefix(Tail(after)) ELSE <<>>
        f1 == IF Len(frac) >= 1 THEN DigitVal(frac[1]) ELSE 0
        f2 == IF Len(frac) >= 2 THEN DigitVal(frac[2]) ELSE 0
    IN IF int = <<>> THEN NaN ELSE DigitsValue(int) * 100 + f1 * 10 + f2

\* ------------------------------------------------------------------ dates
\* Calendar dates as year, month (1..12) and day. The server's zone is taken
\* to be UTC, so the local date setMonth works on is the date toISOString
\* prints.
MonthsPerYear == 12
DayMs == 2 * TickMs

\* The date on the server's clock when now = 0.
ServerStart == [y |-> 2025, m |-> 11, d |-> 29]

NoDate == [y |-> 0, m |-> 0, d |-> 0]

IsLeapYear(y) == (y % 4 = 0 /\ y % 100 # 0) \/ y % 400 = 0

DaysInMonth(y, m) ==
    IF m = 2 THEN (IF IsLeapYear(y) THEN 29 ELSE 28)
    ELSE IF m \in {4, 6, 9, 11} THEN 30 ELSE 31

\* Date arithmetic carries: a month past December moves into the next year,
\* a day past the end of its month into the next month.
RECURSIVE MakeDate(_, _, _)
MakeDate(y, m, d) ==
    IF m > MonthsPerYear THEN MakeDate(y + 1, m - MonthsPerYear, d)
    ELSE IF d > DaysInMonth(y, m) THEN MakeDate(y, m + 1, d - DaysInMonth(y, m))
    ELSE [y |-> y, m |-> m, d |-> d]

\* new Date() at model time t.
DateAt(t) == MakeDate(ServerStart.y, ServerStart.m, ServerStart.d + t \div DayMs)

\* futureDate.setMonth(futureDate.getMonth() + 3), then the date part of
\* toISOString().
DepartureDate(t) ==
    LET today == DateAt(t)
    IN MakeDate(today.y, today.m + 3, today.d)

\* ------------------------------------------------------------ cache (Map)
CacheHas(k) == k \in DOMAIN airportCache

CacheGet(k) == airportCache[k].value

\* Map.set: inserts or overwrites. The fields at and by record when and by
\* which request the entry was written (history; the Map stores the value).
CacheSet(k, v, r) ==
    [x \in DOMAIN airportCache \cup {k} |->
        IF x = k THEN [value |-> v, at |-> now, by |-> r] ELSE airportCache[x]]

\* A delete that evicts every entry when its key is absent.
CacheDeleteEvictsWhenAbsent(k) ==
    IF k \in DOMAIN airportCache
    THEN [x \in DOMAIN airportCache \ {k} |-> airportCache[x]]
    ELSE <<>>

\* Map.delete: removes the key whatever its value; absent key is a no-op.
CacheDelete(k) == [x \in DOMAIN airportCache \ {k} |-> airportCache[x]]

\* A put that schedules no removal while one is pending for the key.
ScheduleRemovalOncePerKey(k, r) ==
    IF \E t \in timers : t.key = k
    THEN timers
    ELSE timers \cup {[key |-> k, due |-> now + CACHE_TTL_MS, by |-> r]}

\* setTimeout(cb, CACHE_TTL_MS): the callback may run at any time from
\* now + CACHE_TTL_MS on.
ScheduleRemoval(k, r) ==
    timers \cup {[key |-> k, due |-> now + CACHE_TTL_MS, by |-> r]}

\* History of the latest set per key, kept after the entry is deleted.
RecordPut(k, v, r) ==
    [x \in DOMAIN lastPut \cup {k} |->
        IF x = k
        THEN [value |-> v, at |-> now, by |-> r, overwrote |-> CacheHas(k)]
        ELSE lastPut[x]]

\* A set on key k is less than CACHE_TTL_MS old.
PutIsFresh(k) == k \in DOMAIN lastPut /\ now < lastPut[k].at + CACHE_TTL_MS

\* -------------------------------------------------------- request records
\* fresh: whether, when the request arrived, a set on its key was less than
\* CACHE_TTL_MS old (history).
\* responses counts the responses sent for the request.
IdleReq ==
    [pc |-> "idle", keyword |-> Undefined, cacheKey |-> <<>>,
     upstreamCalls |-> 0, fresh |-> FALSE, responses |-> 0]

DoneReq == [IdleReq EXCEPT !.pc = "done", !.responses = 1]

\* The handler threw outside its try block and sent nothing.
ThrewReq == [IdleReq EXCEPT !.pc = "threw"]

\* The last response sent by the autocomplete endpoint. On a hit, age is the
\* time since the entry was set (-1 otherwise) and stored the value of the
\* latest set on the key (history).
NoResp ==
    [req |-> 0, keyword |-> Undefined, cacheKey |-> <<>>, status |-> 0,
     src |-> "none", body |-> "",
     amadeusError |-> "", age |-> -1, stored |-> "", upstreamCalls |-> 0]

\* The recommendation request: handler position, its locals, the calls it
\* has issued (fareCalls keeps each call's arguments and, once settled, its
\* outcome) and the response it has sent.
IdleRec ==
    [pc |-> "idle", numberOfDays |-> Undefined, departureAirport |-> Undefined,
     suggestCalls |-> 0, suggestion |-> "none", geminiText |-> <<>>,
     destinations |-> NoValue, departureDate |-> NoDate, idx |-> 0,
     flightResults |-> <<>>,
     fareCalls |-> <<>>, status |-> 0, error |-> "", flights |-> <<>>,
     responses |-> 0]

Init ==
    /\ now = 0
    /\ airportCache = <<>>
    /\ timers = {}
    /\ lastPut = <<>>
    /\ areq = [r \in ReqIds |-> IdleReq]
    /\ resp = NoResp
    /\ rec = IdleRec

\* Requests are numbered in order of arrival.
NextArrival(r) ==
    /\ areq[r].pc = "idle"
    /\ \A q \in ReqIds : q < r => areq[q].pc # "idle"

\* ---------------------------------------------- GET /api/search-airports
\* keyword.toUpperCase is not a function: the TypeError is thrown before the
\* try block and rejects the async handler's promise. What follows depends
\* on the installed express: version 4 ignores the promise and no response
\* is ever sent; version 5 passes the rejection to its error handler, which
\* answers 500.
UncaughtInHandler(r, keyword) ==
    \/ /\ areq' = [areq EXCEPT ![r] = ThrewReq]
       /\ resp' = resp
    \/ /\ areq' = [areq EXCEPT ![r] = DoneReq]
       /\ resp' = [NoResp EXCEPT !.req = r, !.keyword = keyword,
                                 !.status = 500, !.src = "unhandled",
                                 !.body = "Internal Server Error"]

\* A handler whose hit restarts the entry's lifetime (sliding expiry).
SearchAirportsSlidingExpiry(r, keyword) ==
    /\ NextArrival(r)
    /\ IF Falsy(keyword)
       THEN /\ areq' = [areq EXCEPT ![r] = DoneReq]
            /\ resp' = [NoResp EXCEPT !.req = r, !.keyword = keyword,
                                      !.status = 400, !.src = "invalid",
                                      !.body = "Keyword is required"]
            /\ timers' = timers
       ELSE IF keyword.t # "string"
       THEN UncaughtInHandler(r, keyword) /\ timers' = timers
       ELSE LET cacheKey == ToUpperCase(keyword.s)
            IN IF CacheHas(cacheKey)
               THEN /\ areq' = [areq EXCEPT ![r] = DoneReq]
                    /\ resp' = [NoResp EXCEPT !.req = r, !.keyword = keyword,
                                    !.cacheKey = cacheKey,
                                    !.status = 200, !.src = "hit",
                                    !.body = CacheGet(cacheKey),
                                    !.age = now - airportCache[cacheKey].at,
                                    !.stored = lastPut[cacheKey].value]
                    /\ timers' = {t \in timers : t.key # cacheKey} \cup
                                 {[key |-> cacheKey, due |-> now + CACHE_TTL_MS,
                                   by |-> airportCache[cacheKey].by]}
               ELSE /\ areq' = [areq EXCEPT ![r] =
                            [pc |-> "awaiting", keyword |-> keyword,
                             cacheKey |-> cacheKey,
                             upstreamCalls |-> 1,
                             fresh |-> PutIsFresh(cacheKey),
                             responses |-> 0]]
                    /\ resp' = resp
                    /\ timers' = timers
    /\ UNCHANGED <<now, airportCache, lastPut, rec>>

\* The synchronous part of the handler: validation, cache lookup and, on a
\* miss, issuing the reference-data call.
SearchAirports(r, keyword) ==
    /\ NextArrival(r)
    /\ IF Falsy(keyword)
       THEN /\ areq' = [areq EXCEPT ![r] = DoneReq]
            /\ resp' = [NoResp EXCEPT !.req = r, !.keyword = keyword,
                                      !.status = 400, !.src = "invalid",
                                      !.body = "Keyword is required"]
       ELSE IF keyword.t # "string"
       THEN UncaughtInHandler(r, keyword)
       ELSE LET cacheKey == ToUpperCase(keyword.s)
            IN IF CacheHas(cacheKey)
               THEN /\ areq' = [areq EXCEPT ![r] = DoneReq]
                    /\ resp' = [NoResp EXCEPT !.req = r, !.keyword = keyword,
                                    !.cacheKey = cacheKey,
                                    !.status = 200, !.src = "hit",
                                    !.body = CacheGet(cacheKey),
                                    !.age = now - airportCache[cacheKey].at,
                                    !.stored = lastPut[cacheKey].value]
               ELSE /\ areq' = [areq EXCEPT ![r] =
                            [pc |-> "awaiting", keyword |-> keyword,
                             cacheKey |-> cacheKey,
                             upstreamCalls |-> 1,
                             fresh |-> PutIsFresh(cacheKey),
                             responses |-> 0]]
                    /\ resp' = resp
    /\ UNCHANGED <<now, airportCache, timers, lastPut, rec>>

\* amadeus.referenceData.locations.get resolved: store, schedule, respond.
LocationsResolve(r, responseData) ==
    /\ areq[r].pc = "awaiting"
    /\ airportCache' = CacheSet(areq[r].cacheKey, responseData, r)
    /\ timers' = ScheduleRemoval(areq[r].cacheKey, r)
    /\ lastPut' = RecordPut(areq[r].cacheKey, responseData, r)
    /\ areq' = [areq EXCEPT ![r] = DoneReq]
    /\ resp' = [NoResp EXCEPT !.req = r, !.keyword = areq[r].keyword,
                              !.cacheKey = areq[r].cacheKey,
                              !.status = 200, !.src = "miss",
                              !.body = responseData,
                              !.upstreamCalls = areq[r].upstreamCalls]
    /\ UNCHANGED <<now, rec>>

\* A catch block that caches a placeholder for the failed keyword.
LocationsRejectCachesPlaceholder(r, description) ==
    /\ areq[r].pc = "awaiting"
    /\ airportCache' = CacheSet(areq[r].cacheKey, "locationsA", r)
    /\ areq' = [areq EXCEPT ![r] = DoneReq]
    /\ resp' = [NoResp EXCEPT !.req = r, !.keyword = areq[r].keyword,
                              !.cacheKey = areq[r].cacheKey,
                              !.status = 500, !.src = "error",
                              !.body = "Failed to fetch airport data",
                              !.amadeusError = description,
                              !.upstreamCalls = areq[r].upstreamCalls]
    /\ UNCHANGED <<now, timers, lastPut, rec>>

\* amadeus.referenceData.locations.get rejected: the catch block.
LocationsReject(r, description) ==
    /\ areq[r].pc = "awaiting"
    /\ areq' = [areq EXCEPT ![r] = DoneReq]
    /\ resp' = [NoResp EXCEPT !.req = r, !.keyword = areq[r].keyword,
                              !.cacheKey = areq[r].cacheKey,
                              !.status = 500, !.src = "error",
                              !.body = "Failed to fetch airport data",
                              !.amadeusError = description,
                              !.upstreamCalls = areq[r].upstreamCalls]
    /\ UNCHANGED <<now, airportCache, timers, lastPut, rec>>

\* The setTimeout callback: deletes by key, then is gone.
TimerFire(t) ==
    /\ t \in timers
    /\ now >= t.due
    /\ airportCache' = CacheDelete(t.key)
    /\ timers' = timers \ {t}
    /\ UNCHANGED <<now, lastPut, areq, resp, rec>>

\* Wall-clock time passes; timers are not guaranteed to run on time.
Tick ==
    /\ now < MaxTime
    /\ now' = now + TickMs
    /\ UNCHANGED <<airportCache, timers, lastPut, areq, resp, rec>>

NextCache ==
    \/ \E r \in ReqIds, k \in KeywordInputs : SearchAirports(r, k)
    \/ \E r \in ReqIds, d \in LocationData : LocationsResolve(r, d)
    \/ \E r \in ReqIds, e \in AmadeusErrors : LocationsReject(r, e)
    \/ \E t \in timers : TimerFire(t)
    \/ Tick

SpecCache == Init /\ [][NextCache]_vars

\* The life of cache entries: requests that reach the cache, lookups that
\* succeed, and the removals. Time passes and the event loop runs every
\* callback that is due.
ExpiryKeywords == {JsStr(<<"p", "a", "r">>), JsStr(<<"l", "o", "n">>)}

NextExpiry ==
    \/ \E r \in ReqIds, k \in ExpiryKeywords : SearchAirports(r, k)
    \/ \E r \in ReqIds : LocationsResolve(r, "locationsA")
    \/ \E t \in timers : TimerFire(t)
    \/ Tick

SpecExpiry ==
    /\ Init /\ [][NextExpiry]_vars
    /\ WF_vars(Tick)
    /\ WF_vars(\E t \in timers : TimerFire(t))

\* ----------------------------------------------- POST /api/search-flights
cacheVars == <<now, airportCache, timers, lastPut, areq, resp>>

Respond(r, status, error, flights) ==
    [r EXCEPT !.pc = "done", !.status = status, !.error = error,
              !.flights = flights, !.responses = @ + 1]

\* The outer catch block.
RecommendationFailed(r) ==
    Respond(r, 500,
            "Failed to fetch flight recommendations. Please check server logs.",
            <<>>)

\* A loop that answers with an error when no fare was found.
ContinueLoopEmptyIsError(r, i) ==
    LET dests == r.destinations.elems
    IN IF i > Len(dests)
       THEN IF r.flightResults = <<>>
            THEN RecommendationFailed(r)
            ELSE Respond(r, 200, "", r.flightResults)
       ELSE IF dests[i].t = "null"
       THEN RecommendationFailed(r)
       ELSE [r EXCEPT !.pc = "fare", !.idx = i,
                      !.fareCalls = Append(@,
                          [origin |-> r.departureAirport,
                           destination |-> dests[i].iataCode,
                           departureDate |-> r.departureDate,
                           outcome |-> "pending", data |-> <<>>])]

\* A loop that works out the departure date anew for every fare call.
ContinueLoopDatePerCall(r, i) ==
    LET dests == r.destinations.elems
    IN IF i > Len(dests)
       THEN Respond(r, 200, "", r.flightResults)
       ELSE IF dests[i].t = "null"
       THEN RecommendationFailed(r)
       ELSE [r EXCEPT !.pc = "fare", !.idx = i,
                      !.fareCalls = Append(@,
                          [origin |-> r.departureAirport,
                           destination |-> dests[i].iataCode,
                           departureDate |-> DepartureDate(now),
                           outcome |-> "pending", data |-> <<>>])]

\* The for...of loop from element i up to its next await or its end. A null
\* element throws inside the inner try on destination.iataCode and again in
\* the inner catch, which formats the same property: the outer catch answers.
ContinueLoop(r, i) ==
    LET dests == r.destinations.elems
    IN IF i > Len(dests)
       THEN Respond(r, 200, "", r.flightResults)
       ELSE IF dests[i].t = "null"
       THEN RecommendationFailed(r)
       ELSE [r EXCEPT !.pc = "fare", !.idx = i,
                      !.fareCalls = Append(@,
                          [origin |-> r.departureAirport,
                           destination |-> dests[i].iataCode,
                           departureDate |-> r.departureDate,
                           outcome |-> "pending", data |-> <<>>])]

\* Validation that rejects only when both fields are missing.
SearchFlightsRejectsOnlyBothMissing(numberOfDays, departureAirport) ==
    /\ rec.pc = "idle"
    /\ LET r == [rec EXCEPT !.numberOfDays = numberOfDays,
                            !.departureAirport = departureAirport]
       IN IF Falsy(numberOfDays) /\ Falsy(departureAirport)
          THEN rec' = Respond(r, 400,
                          "Number of days and departure airport are required",
                          <<>>)
          ELSE rec' = [r EXCEPT !.pc = "gemini", !.suggestion = "pending",
                                !.suggestCalls = @ + 1]
    /\ UNCHANGED cacheVars

\* A handler that primes the airport cache with the departure airport.
SearchFlightsPrimesCache(numberOfDays, departureAirport) ==
    /\ rec.pc = "idle"
    /\ LET r == [rec EXCEPT !.numberOfDays = numberOfDays,
                            !.departureAirport = departureAirport]
       IN IF Falsy(numberOfDays) \/ Falsy(departureAirport)
          THEN /\ rec' = Respond(r, 400,
                          "Number of days and departure airport are required",
                          <<>>)
               /\ UNCHANGED <<airportCache, timers>>
          ELSE /\ rec' = [r EXCEPT !.pc = "gemini", !.suggestion = "pending",
                                   !.suggestCalls = @ + 1]
               /\ airportCache' = CacheSet(ToUpperCase(departureAirport.s),
                                           "locationsA", 0)
               /\ timers' = ScheduleRemoval(ToUpperCase(departureAirport.s), 0)
    /\ UNCHANGED <<now, lastPut, areq, resp>>

\* Validation, then the generateContent call.
SearchFlights(numberOfDays, departureAirport) ==
    /\ rec.pc = "idle"
    /\ LET r == [rec EXCEPT !.numberOfDays = numberOfDays,
                            !.departureAirport = departureAirport]
       IN IF Falsy(numberOfDays) \/ Falsy(departureAirport)
          THEN rec' = Respond(r, 400,
                          "Number of days and departure airport are required",
                          <<>>)
          ELSE rec' = [r EXCEPT !.pc = "gemini", !.suggestion = "pending",
                                !.suggestCalls = @ + 1]
    /\ UNCHANGED cacheVars

\* generateContent / response / text() threw or rejected.
GeminiReject ==
    /\ rec.pc = "gemini"
    /\ rec' = RecommendationFailed([rec EXCEPT !.suggestion = "failed"])
    /\ UNCHANGED cacheVars

\* A handler that takes an unparseable suggestion for an empty list.
GeminiResolveLenient(geminiText) ==
    /\ rec.pc = "gemini"
    /\ LET destinations == ParseDestinations(geminiText)
           r == [rec EXCEPT !.suggestion = "resolved",
                            !.geminiText = geminiText,
                            !.destinations = destinations,
                            !.departureDate =
                                IF destinations = NoValue THEN NoDate
                                ELSE DepartureDate(now)]
       IN IF destinations = NoValue
          THEN rec' = ContinueLoop(r, 1)
          ELSE IF ~Iterable(destinations)
          THEN rec' = RecommendationFailed(r)
          ELSE rec' = ContinueLoop(r, 1)
    /\ UNCHANGED cacheVars

\* The suggestion text arrived: strip, parse, then start the fare loop.
GeminiResolve(geminiText) ==
    /\ rec.pc = "gemini"
    /\ LET destinations == ParseDestinations(geminiText)
           r == [rec EXCEPT !.suggestion = "resolved",
                            !.geminiText = geminiText,
                            !.destinations = destinations,
                            !.departureDate =
                                IF destinations = NoValue THEN NoDate
                                ELSE DepartureDate(now)]
       IN IF destinations = NoValue \/ ~Iterable(destinations)
          THEN rec' = RecommendationFailed(r)
          ELSE rec' = ContinueLoop(r, 1)
    /\ UNCHANGED cacheVars

\* flightOffersSearch.get resolved for the current destination.
FareResolve(data) ==
    /\ rec.pc = "fare"
    /\ LET destination == rec.destinations.elems[rec.idx]
           r == [rec EXCEPT
                   !.fareCalls[rec.idx].outcome = "ok",
                   !.fareCalls[rec.idx].data = data,
                   !.flightResults =
                       IF Len(data) > 0
                       THEN Append(@, [destination |-> destination.city,
                                       price |-> ParseFloat(data[1].price.total)])
                       ELSE @]
       IN rec' = ContinueLoop(r, rec.idx + 1)
    /\ UNCHANGED cacheVars

\* A fare error that escapes to the outer catch.
FareRejectAborts(code) ==
    /\ rec.pc = "fare"
    /\ rec' = RecommendationFailed(
                  [rec EXCEPT !.fareCalls[rec.idx].outcome = "error"])
    /\ UNCHANGED cacheVars

\* A fare error answered by asking once more for the same destination.
FareRejectRetries(code) ==
    /\ rec.pc = "fare"
    /\ rec' = ContinueLoop([rec EXCEPT !.fareCalls[Len(rec.fareCalls)].outcome = "error"],
                           IF Len(rec.fareCalls) = rec.idx
                           THEN rec.idx ELSE rec.idx + 1)
    /\ UNCHANGED cacheVars

\* flightOffersSearch.get rejected: the inner catch logs and goes on.
FareReject(code) ==
    /\ rec.pc = "fare"
    /\ rec' = ContinueLoop([rec EXCEPT !.fareCalls[rec.idx].outcome = "error"],
                           rec.idx + 1)
    /\ UNCHANGED cacheVars

NextRec ==
    \/ \E d \in DaysInputs, a \in AirportInputs : SearchFlights(d, a)
    \/ \E t \in GeminiTexts : GeminiResolve(t)
    \/ GeminiReject
    \/ \E data \in FareData : FareResolve(data)
    \/ \E e \in FareErrors : FareReject(e)

SpecRec == Init /\ [][NextRec]_vars

Next == NextCache \/ NextRec

Spec == Init /\ [][Next]_vars

\* ------------------------------------------------- both endpoints at once
\* The two handlers interleaved on one event loop while time passes, with
\* fewer inputs than each endpoint's own specification: autocomplete
\* requests for one key, without a keyword or with a repeated keyword
\* parameter (?keyword=a&keyword=b), suggestions of zero to MaxCands
\* candidates without wrapping, a suggestion with a null element and one
\* that does not parse.
ServerReqIds == 1..MaxServerRequests

ServerKeywords == {Undefined, JsStr(<<"p", "a", "r">>), JsArray}

ServerAirports == {Undefined, JsStr(<<"J", "F", "K">>)}

Tokyo == CHOOSE c \in Candidates : c # Paris

ServerList(n) == [i \in 1..n |-> IF i % 2 = 1 THEN Paris ELSE Tokyo]

ServerTexts ==
    {<<>>, <<Json([kind |-> "array", elems |-> <<Paris, NullElem, Paris>>])>>}
        \cup {<<Json([kind |-> "array", elems |-> ServerList(n)])>> :
                 n \in 0..MaxCands}

ServerFares == {<<>>, <<OfferA>>}

NextServer ==
    \/ \E r \in ServerReqIds, k \in ServerKeywords : SearchAirports(r, k)
    \/ \E r \in ServerReqIds, d \in LocationData : LocationsResolve(r, d)
    \/ \E r \in ServerReqIds, e \in AmadeusErrors : LocationsReject(r, e)
    \/ \E t \in timers : TimerFire(t)
    \/ Tick
    \/ \E a \in ServerAirports : SearchFlights(JsStr(<<"5">>), a)
    \/ \E t \in ServerTexts : GeminiResolve(t)
    \/ GeminiReject
    \/ \E data \in ServerFares : FareResolve(data)
    \/ \E e \in FareErrors : FareReject(e)

SpecServer == Init /\ [][NextServer]_vars

\* ---------------------------------------------- recommendation properties
FailureMessage ==
    "Failed to fetch flight recommendations. Please check server logs."

\* The JSON text left when fences and whitespace are set aside, if the
\* payload is exactly one JSON text in optional fences.
SolidPieces(text) ==
    SelectSeq(text, LAMBDA p : p.tok \notin {"fence_json", "fence", "ws"})

Parseable(text) ==
    Len(SolidPieces(text)) = 1 /\ SolidPieces(text)[1].tok = "json"

PayloadValue(text) == SolidPieces(text)[1].val

\* An array whose elements all have city and iataCode.
WellShaped(v) ==
    /\ v.kind = "array"
    /\ \A i \in DOMAIN v.elems :
          /\ v.elems[i].t = "object"
          /\ v.elems[i].city # Absent
          /\ v.elems[i].iataCode # Absent

\* The price of an offer, in hundredths.
PriceOf(offer) ==
    CASE offer = OfferA -> 45000
      [] offer = OfferB -> 98050

\* The candidates whose fare call returned at least one offer.
Priced == {i \in DOMAIN rec.fareCalls :
              rec.fareCalls[i].outcome = "ok" /\ rec.fareCalls[i].data # <<>>}

GotCandidates ==
    /\ rec.suggestion = "resolved"
    /\ Parseable(rec.geminiText)
    /\ WellShaped(PayloadValue(rec.geminiText))

\* C3: for a well-formed candidate list, whatever the fare outcomes, the
\* request is answered 200 with exactly the candidates that got an offer,
\* each as {city, price of the first offer}, in candidate order.
C3_ResultsAreThePricedCandidates ==
    rec.pc = "done" /\ GotCandidates =>
        LET dests == PayloadValue(rec.geminiText).elems
        IN /\ rec.status = 200 /\ rec.error = ""
           /\ Len(rec.fareCalls) = Len(dests)
           /\ Len(rec.flights) = Cardinality(Priced)
           /\ \E pick \in [DOMAIN rec.flights -> Priced] :
                 /\ \A i, j \in DOMAIN pick : i < j => pick[i] < pick[j]
                 /\ \A j \in DOMAIN pick :
                       rec.flights[j] =
                           [destination |-> dests[pick[j]].city,
                            price |-> PriceOf(rec.fareCalls[pick[j]].data[1])]

\* Three candidates priced, failed, priced: two results in candidate order.
C3_Witness ==
    /\ rec.pc = "done" /\ GotCandidates
    /\ Len(rec.fareCalls) = 3
    /\ rec.fareCalls[1].outcome = "ok" /\ rec.fareCalls[1].data = <<OfferA>>
    /\ rec.fareCalls[2].outcome = "error"
    /\ rec.fareCalls[3].outcome = "ok" /\ rec.fareCalls[3].data = <<OfferB, OfferA>>
    /\ rec.destinations.elems[1] # rec.destinations.elems[3]
    /\ Len(rec.flights) = 2

\* C4: when the suggestion call fails, or its text is not one JSON text once
\* the fences are stripped, the request ends with one 500 response and no
\* fare call.
C4_SuggestionFailureIsFatal ==
    (\/ rec.suggestion = "failed"
     \/ rec.suggestion = "resolved" /\ ~Parseable(rec.geminiText)) =>
        /\ rec.pc = "done"
        /\ rec.status = 500 /\ rec.error = FailureMessage
        /\ rec.responses = 1
        /\ rec.fareCalls = <<>>

\* A candidate list preceded by prose was answered with the 500.
C4_Witness ==
    /\ rec.pc = "done" /\ rec.status = 500
    /\ rec.suggestion = "resolved"
    /\ \E i \in DOMAIN rec.geminiText :
          /\ rec.geminiText[i].tok = "json"
          /\ WellShaped(rec.geminiText[i].val)
          /\ rec.geminiText[i].val.elems # <<>>
    /\ ~Parseable(rec.geminiText)

\* C5: a suggestion that parses but is not an array of {city, iataCode}
\* objects ends with the 500 before any fare call; every fare call is for
\* an element that has both properties.
C5_ShapeIsValidated ==
    /\ (rec.suggestion = "resolved" /\ Parseable(rec.geminiText)
            /\ ~WellShaped(PayloadValue(rec.geminiText))) =>
          /\ rec.pc = "done"
          /\ rec.status = 500
          /\ rec.fareCalls = <<>>
    /\ \A i \in DOMAIN rec.fareCalls :
          /\ rec.destinations.elems[i].city # Absent
          /\ rec.destinations.elems[i].iataCode # Absent

\* C9: a request lacking the trip length or the departure code is answered
\* 400 at once, with no suggestion call and no fare call, and the step that
\* answers it leaves the cache and its timers alone.
C9_InvalidInputFailsFast ==
    /\ [](rec.pc # "idle"
            /\ (Falsy(rec.numberOfDays) \/ Falsy(rec.departureAirport)) =>
                /\ rec.pc = "done"
                /\ rec.status = 400
                /\ rec.responses = 1
                /\ rec.suggestCalls = 0 /\ rec.suggestion = "none"
                /\ rec.fareCalls = <<>>)
    /\ [][rec'.status = 400 => UNCHANGED <<airportCache, timers, lastPut>>]_vars

\* Only the departure code is missing.
C9_Witness ==
    /\ rec.pc = "done" /\ rec.status = 400
    /\ ~Falsy(rec.numberOfDays) /\ rec.departureAirport = Undefined

\* C10: when every fare call of a well-formed candidate list fails or
\* returns no offer, the request is answered 200 with no flights.
C10_AllFaresFailIsEmptySuccess ==
    (rec.pc = "done" /\ GotCandidates /\ Priced = {}) =>
        /\ rec.status = 200 /\ rec.error = ""
        /\ rec.flights = <<>>
        /\ Len(rec.fareCalls) = Len(rec.destinations.elems)

\* Three candidates: one fare call failed, two returned no offer.
C10_Witness ==
    /\ rec.pc = "done" /\ GotCandidates /\ rec.status = 200
    /\ Len(rec.fareCalls) = 3
    /\ \E i \in 1..3 : rec.fareCalls[i].outcome = "error"
    /\ \E i \in 1..3 :
          rec.fareCalls[i].outcome = "ok" /\ rec.fareCalls[i].data = <<>>
    /\ Priced = {}

\* ------------------------------------------------------- cache properties
\* C1: a cache hit never answers from an entry whose age has reached
\* CACHE_TTL_MS, whether or not its removal timer has run.
C1_NoStaleRead == resp.src = "hit" => resp.age < CACHE_TTL_MS

\* C2: a removal callback only ever deletes the entry written by the set
\* that scheduled it, never an entry a later set wrote on the same key.
C2_RemovalOnlyOwnEntry ==
    [][\A t \in timers :
          TimerFire(t) /\ CacheHas(t.key) => airportCache[t.key].by = t.by]_vars

\* C6: once a lookup has been stored at time t, a request for the same key
\* arriving before t + CACHE_TTL_MS issues no upstream call and is answered
\* with the stored value; a request that does go upstream calls it once.
C6_HitWithinTTL ==
    /\ \A r \in ReqIds : areq[r].pc = "awaiting" =>
            ~areq[r].fresh /\ areq[r].upstreamCalls = 1
    /\ resp.src = "hit" =>
            resp.upstreamCalls = 0 /\ resp.body = resp.stored
    /\ resp.src = "miss" => resp.upstreamCalls = 1

\* C7: after a set overwrites a live entry, the cache holds the later
\* write's value and keeps it until the later write's time + CACHE_TTL_MS.
C7_OverwriteRestartsLifetime ==
    \A k \in DOMAIN lastPut :
        lastPut[k].overwrote /\ now < lastPut[k].at + CACHE_TTL_MS =>
            /\ CacheHas(k)
            /\ CacheGet(k) = lastPut[k].value
            /\ airportCache[k].at = lastPut[k].at

\* C8: a failed upstream lookup answers 500 with the upstream error detail,
\* returns no location data, and leaves the cache and the timers as they
\* were; an entry is created or changed only by a successful lookup.
C8_LookupFailureLeavesCache ==
    [][/\ \A r \in ReqIds, e \in AmadeusErrors :
            LocationsReject(r, e) =>
                /\ resp'.req = r /\ resp'.src = "error"
                /\ resp'.status = 500 /\ resp'.amadeusError = e
                /\ resp'.body \notin LocationData
                /\ airportCache' = airportCache
                /\ timers' = timers
       /\ (\E k \in DOMAIN airportCache' :
                ~CacheHas(k) \/ airportCache'[k] # airportCache[k]) =>
            \E r \in ReqIds, d \in LocationData :
                /\ areq[r].pc = "awaiting"
                /\ resp'.req = r /\ resp'.src = "miss" /\ resp'.body = d
                /\ airportCache'[areq[r].cacheKey].value = d]_vars

\* A lookup failed while another request's entry for the same key is cached.
C8_Witness ==
    /\ resp.src = "error" /\ resp.status = 500
    /\ CacheHas(resp.cacheKey)

\* The two spellings of each letter the keywords use.
LetterCases ==
    { {"a", "A"}, {"l", "L"}, {"n", "N"}, {"o", "O"}, {"p", "P"}, {"r", "R"} }

LowerLetters == {"a", "l", "n", "o", "p", "r"}

SameIgnoringCase(a, b) ==
    /\ Len(a) = Len(b)
    /\ \A i \in DOMAIN a : a[i] = b[i] \/ {a[i], b[i]} \in LetterCases

\* C11: every key in the cache is upper-case, so no two entries differ only
\* in case; a keyword in any letter case is answered from the entry whose
\* key has the same letters while that entry is in the cache, and a keyword
\* for which nothing was ever stored is a miss.
C11_KeysAreCaseFolded ==
    /\ [](/\ \A k \in DOMAIN airportCache :
                \A i \in DOMAIN k : k[i] \notin LowerLetters
          /\ \A j, k \in DOMAIN airportCache : SameIgnoringCase(j, k) => j = k)
    /\ [][\A r \in ReqIds, kw \in KeywordInputs :
            (/\ areq[r].pc = "idle" /\ areq'[r].pc # "idle"
             /\ kw.t = "string" /\ ~Falsy(kw)
             /\ SearchAirports(r, kw)) =>
                /\ \A k \in DOMAIN airportCache :
                      SameIgnoringCase(kw.s, k) =>
                          /\ resp'.req = r /\ resp'.src = "hit"
                          /\ resp'.body = airportCache[k].value
                /\ (\A k \in DOMAIN lastPut : ~SameIgnoringCase(kw.s, k)) =>
                      /\ areq'[r].pc = "awaiting"
                      /\ resp' = resp]_vars

\* The lower-case spelling was answered from the entry under the upper-case
\* key.
C11_Witness ==
    /\ resp.src = "hit"
    /\ resp.keyword = JsStr(<<"p", "a", "r">>)
    /\ resp.cacheKey = <<"P", "A", "R">>
    /\ resp.body \in LocationData

\* C13: a removal whose key is absent (the callback of a put whose entry an
\* earlier callback already removed) completes and leaves the cache, and
\* everything but the set of pending callbacks, as it was.
C13_RemovalOfAbsentKeyIsNoOp ==
    [][\A t \in timers :
         TimerFire(t) /\ ~CacheHas(t.key) =>
             /\ airportCache' = airportCache
             /\ timers' = timers \ {t}
             /\ UNCHANGED <<lastPut, areq, resp>>]_vars

\* Two puts wrote a key, both callbacks have run, and another key is cached.
C13_Witness ==
    \E k \in DOMAIN lastPut :
        /\ lastPut[k].overwrote
        /\ ~CacheHas(k)
        /\ \A t \in timers : t.key # k
        /\ DOMAIN airportCache # {}

\* C14: an autocomplete request whose keyword is empty or missing is
\* answered 400 at once: no reference-data call is issued, and cache,
\* pending removals and put history are untouched.
C14_EmptyKeywordRejectedFirst ==
    [][\A r \in ReqIds, kw \in {Undefined, JsStr(<<>>)} :
         (areq[r].pc = "idle" /\ areq'[r].pc # "idle" /\ SearchAirports(r, kw)) =>
             /\ resp'.req = r /\ resp'.status = 400
             /\ resp'.body = "Keyword is required"
             /\ resp'.upstreamCalls = 0
             /\ areq'[r].pc = "done" /\ areq'[r].upstreamCalls = 0
             /\ UNCHANGED <<airportCache, timers, lastPut>>]_vars

\* An empty keyword was rejected while the cache held an entry.
C14_Witness ==
    /\ resp.status = 400
    /\ resp.keyword = JsStr(<<>>)
    /\ DOMAIN airportCache # {}
    /\ timers # {}

CacheKeys == {ToUpperCase(k.s) : k \in ExpiryKeywords}

\* C17: every key in the cache has a pending removal scheduled by the put
\* that wrote its current value; and, time passing and due callbacks running,
\* every entry whose removal falls due within the modelled time is removed.
C17_EveryEntryHasItsRemoval ==
    /\ [](\A k \in DOMAIN airportCache :
            \E t \in timers : /\ t.key = k
                              /\ t.by = airportCache[k].by
                              /\ t.due = airportCache[k].at + CACHE_TTL_MS)
    /\ \A k \in CacheKeys :
           (CacheHas(k) /\ airportCache[k].at + CACHE_TTL_MS <= MaxTime)
               ~> ~CacheHas(k)

\* One key is cached with its removal pending, another was cached and has
\* been removed.
C17_Witness ==
    \E k \in DOMAIN airportCache, j \in DOMAIN lastPut \ DOMAIN airportCache :
        /\ \E t \in timers : t.key = k /\ t.by = airportCache[k].by
        /\ \A t \in timers : t.key # j

\* C18: a request served from the cache changes neither the cache nor the
\* pending removals, and its body is the value the reference-data call
\* returned to the put that wrote the entry.
C18_HitHasNoSideEffect ==
    [][\A r \in ReqIds, kw \in KeywordInputs :
         (/\ areq[r].pc = "idle" /\ areq'[r].pc = "done"
          /\ kw.t = "string" /\ CacheHas(ToUpperCase(kw.s))
          /\ SearchAirports(r, kw)) =>
             /\ resp'.req = r /\ resp'.src = "hit"
             /\ resp'.body = lastPut[ToUpperCase(kw.s)].value
             /\ resp'.upstreamCalls = 0
             /\ UNCHANGED <<airportCache, timers, lastPut>>]_vars

\* A hit on an entry that is half a lifetime old and was written twice.
C18_Witness ==
    /\ resp.src = "hit"
    /\ resp.age > 0
    /\ lastPut[resp.cacheKey].overwrote
    /\ \E t \in timers : t.key = resp.cacheKey

\* C19: a request whose handler has no upstream call outstanding has been
\* answered exactly once; no request is answered twice.
C19_AnsweredExactlyOnce ==
    /\ \A r \in ReqIds :
           /\ areq[r].responses <= 1
           /\ areq[r].pc \notin {"idle", "awaiting"} => areq[r].responses = 1
    /\ rec.responses <= 1
    /\ rec.pc = "done" => rec.responses = 1

\* ------------------------------------------------- two-endpoint properties
\* The elements of the parsed suggestion, none when it is not an array.
ParsedList ==
    IF rec.destinations.kind = "array" THEN rec.destinations.elems ELSE <<>>

\* C12: a recommend request calls the suggestion source at most once; its
\* i-th fare call is for the i-th element of the parsed list, so that no
\* element is priced twice, and once the request is answered every element
\* of a list of objects has been priced exactly once, whatever the outcomes
\* of the fare calls. An autocomplete request issues at most one
\* reference-data call.
C12_NoRetries ==
    /\ rec.suggestCalls <= 1
    /\ rec.suggestion # "none" => rec.suggestCalls = 1
    /\ Len(rec.fareCalls) <= Len(ParsedList)
    /\ \A i \in DOMAIN rec.fareCalls :
           rec.fareCalls[i].destination = ParsedList[i].iataCode
    /\ (rec.pc = "done" /\ \A i \in DOMAIN ParsedList : ParsedList[i].t # "null")
           => Len(rec.fareCalls) = Len(ParsedList)
    /\ \A r \in ReqIds : areq[r].upstreamCalls <= 1
    /\ resp.upstreamCalls <= 1
    /\ resp.src = "miss" => resp.upstreamCalls = 1

\* A request answered after three fare calls of which the first failed and
\* a later one succeeded, beside an autocomplete request answered from
\* upstream.
C12_Witness ==
    /\ rec.pc = "done"
    /\ Len(rec.fareCalls) = 3
    /\ rec.fareCalls[1].outcome = "error"
    /\ rec.fareCalls[3].outcome = "ok"
    /\ resp.src = "miss"

\* C15: no step of a recommend request changes the cache, the pending
\* removals or the put history, and none changes an autocomplete request or
\* its response.
C15_RecommendLeavesCacheAlone ==
    [][rec' # rec => UNCHANGED <<airportCache, timers, lastPut, areq, resp>>]_vars

\* A recommend request has gone through its fare calls while the cache held
\* an entry with its removal pending.
C15_Witness ==
    /\ rec.pc = "done"
    /\ rec.flightResults # <<>>
    /\ DOMAIN airportCache # {}
    /\ timers # {}

\* C16: the departure date is worked out when the suggestion has been
\* parsed, from the clock at that moment, and is not changed afterwards;
\* every fare call carries that date and the request's departure airport as
\* origin, however much time passes between the calls.
C16_OneDepartureDate ==
    /\ [](\A i \in DOMAIN rec.fareCalls :
            /\ rec.fareCalls[i].departureDate = rec.departureDate
            /\ rec.fareCalls[i].departureDate # NoDate
            /\ rec.fareCalls[i].origin = rec.departureAirport)
    /\ [][/\ rec.departureDate # NoDate => rec'.departureDate = rec.departureDate
          /\ (rec.departureDate = NoDate /\ rec'.departureDate # NoDate) =>
                 /\ rec.pc = "gemini"
                 /\ rec.fareCalls = <<>>
                 /\ rec'.departureDate = DepartureDate(now)]_vars

\* Three fare calls were made, and the day changed after the first.
C16_Witness ==
    /\ Len(rec.fareCalls) = 3
    /\ rec.fareCalls[3].outcome = "ok"
    /\ DepartureDate(now) # rec.departureDate

====
